---------------------------- MODULE Spec2Model ----------------------------
(***************************************************************************)
(* Least-connections agent assignment of aicc-back.                        *)
(*                                                                         *)
(* The store holds the agents table (agent_id, is_online), the cases table *)
(* (case_id, agent_id, status, closed_at, memo, emotion) and the tables    *)
(* satisfactions, messages and recordings.  Every pool.query is one        *)
(* SQL statement and is modelled as one atomic step; a handler that awaits *)
(* two queries (POST /cases) is two steps, and other handlers may run      *)
(* between them.  The POST /cases handlers that have selected an agent and *)
(* not yet inserted are kept as a bag: handlers are interchangeable.       *)
(* The 400, 404 and 500 exits of the PATCH handlers write nothing.         *)
(*                                                                         *)
(* Case status strings are romanised:                                      *)
(*   "daegi" = '대기' (waiting), "sangdam" = '상담' (in progress),         *)
(*   "jongnyo" = '종료' (closed), "wanryo" = '완료' (completed).           *)
(***************************************************************************)
EXTENDS Integers, Sequences, FiniteSets, Bags, TLC

\* ---------------------------------------------------------------- bounds
MaxAgentId == 2
MaxCases == 3
NumProcs == 2
\* caps of the specification of the operations on an existing case
MaxSubCases == 1
MaxRows == 1
\* caps of the specification of the order routes
MaxOrders == 1
MaxItems == 2
MaxTx == 2
\* cap of the specification of the creations that run one at a time
MaxStartCases == 1

\* ------------------------------------------------------------- constants
\* JavaScript null / SQL NULL
NULL == -1

STATUS_WAITING == "daegi"
STATUS_CONSULT == "sangdam"
STATUS_CLOSED == "jongnyo"
STATUS_EXCLUDED == "wanryo"

\* allowed = ['대기', '상담', '종료']
allowed == {STATUS_WAITING, STATUS_CONSULT, STATUS_CLOSED}

\* closed_at value written by NOW()
NOW == 1

\* agent_id values of the rows of the agents table (an integer column;
\* no endpoint inserts or deletes agents)
AgentIds == 0..MaxAgentId

VARIABLES
    is_online,        \* agents.is_online, by agent_id
    cases,            \* cases table; case_id is the index of the row
    pending,          \* bag of the POST /cases handlers that await their insert, each with
                      \* its local agentIdToAssign and the history flag raced: an overlapping
                      \* creation bound the same agent while a less loaded online agent existed
    resp,             \* HTTP status the latest step sent, 0 = none sent or not tracked
    lastSel,          \* history: the latest selector call with no store write after it
    last,             \* history: the request the latest step handled and the queries it ran
    satisfactions,    \* satisfactions table: rows (case_id, score)
    messages,         \* messages table: rows (case_id)
    recordings,       \* recordings table: rows (case_id)
    orders,           \* orders table: the order_id values of its committed rows
    order_items,      \* order_items table: number of committed rows, by order_id
    order_seq,        \* last value of the orders.order_id sequence
    txs,              \* bag of the DELETE /orders/:order_id handlers inside their transaction
    wf                \* channels and position of the processAICC workflow run

vars == <<is_online, cases, pending, resp, lastSel, last,
          satisfactions, messages, recordings,
          orders, order_items, order_seq, txs, wf>>

\* the tables of the order routes
shopVars == <<orders, order_items, order_seq, txs>>

\* what the case and agent routes never touch
farVars == <<shopVars, wf>>

\* the tables of the rows attached to a case
subTables == <<satisfactions, messages, recordings>>

\* the latest step handled no tracked request
NoReq == [op |-> "none"]

NoCall == [called |-> FALSE, ret |-> NULL, active_cases |-> 0]

\* ------------------------------------------------- selector (assignAgent.js)
\* LEFT JOIN cases c ON a.agent_id = c.agent_id AND c.status != '완료'
Joined(a, cs) ==
    {i \in 1..Len(cs) : cs[i].agent_id = a /\ cs[i].status # STATUS_EXCLUDED}

\* COUNT(c.case_id) AS active_cases
ActiveCases(a, cs) == Cardinality(Joined(a, cs))

\* WHERE a.is_online = true
CandidatesAll(online) == AgentIds
Candidates(online) == {a \in AgentIds : online[a] = TRUE}

\* GROUP BY a.agent_id ORDER BY active_cases ASC LIMIT 1.  The order of rows
\* with equal active_cases is not defined by the statement: any of them may be
\* the first row.
QueryRows(online, cs) ==
    IF Candidates(online) = {} THEN {<< >>}
    ELSE {<<[agent_id |-> a, active_cases |-> ActiveCases(a, cs)]>> :
            a \in {x \in Candidates(online) :
                     \A y \in Candidates(online) :
                        ActiveCases(x, cs) <= ActiveCases(y, cs)}}

\* if (rows.length > 0) return rows[0].agent_id; else return null;
assignAgentDefault(rows) ==
    IF Len(rows) > 0 THEN rows[1].agent_id ELSE 1
assignAgentByLeastConnections(rows) ==
    IF Len(rows) > 0 THEN rows[1].agent_id ELSE NULL

\* ------------------------------------------------------ POST /cases (cases.js)
\* !agentIdToAssign : null and 0 are falsy
FalsyNever(v) == FALSE
FalsyZeroOnly(v) == v = 0
Falsy(v) == v = NULL \/ v = 0

\* req.body of POST /cases.  customer_id is a number, NULL when the field is
\* absent; title, category and content are << >> when absent and <<text>>
\* otherwise.  order_id is optional and not stored in the model.
ValidBody ==
    [customer_id |-> 1, title |-> <<"t">>, category |-> <<"c">>, content |-> <<"x">>]
PostBodies ==
    {ValidBody}
    \cup {[ValidBody EXCEPT !.customer_id = v] : v \in {NULL, 0}}
    \cup {[ValidBody EXCEPT !.title = v] : v \in {<< >>, <<"">>}}
    \cup {[ValidBody EXCEPT !.category = v] : v \in {<< >>, <<"">>}}
    \cup {[ValidBody EXCEPT !.content = v] : v \in {<< >>, <<"">>}}

\* !x for a string field: undefined and '' are falsy
FalsyStr(x) == IF Len(x) = 0 THEN TRUE ELSE x[1] = ""

\* if (!customer_id || !title || !category || !content)
RequiredMissingNoTitle(body) ==
    Falsy(body.customer_id) \/ FalsyStr(body.category) \/ FalsyStr(body.content)
RequiredMissing(body) ==
    \/ Falsy(body.customer_id)
    \/ FalsyStr(body.title)
    \/ FalsyStr(body.category)
    \/ FalsyStr(body.content)

\* a required field of the body is absent or the empty string
AbsentOrEmpty(body) ==
    \/ body.customer_id = NULL
    \/ \E x \in {body.title, body.category, body.content} : x = << >> \/ x = <<"">>

\* column values of cases.memo and cases.emotion: SQL NULL or a non-empty text
COL_NULL == "null"
COL_TEXT == "text"

\* INSERT INTO cases (..., agent_id, ..., status, created_at)
\*   VALUES (..., $2, ..., '대기', NOW())
NewCase(agent) ==
    [agent_id |-> agent, status |-> STATUS_WAITING, closed_at |-> NULL,
     memo |-> COL_NULL, emotion |-> COL_NULL]

\* what a POST /cases step did: the body had an absent or empty required
\* field, a query threw, the selection query ran, the insert ran
PostReq(missing, err, sel, ins) ==
    [op |-> "postCases", missing |-> missing, err |-> err, sel |-> sel, ins |-> ins]

\* cases of agent a whose status is not the closed state
OpenCases(a, cs) ==
    Cardinality({i \in 1..Len(cs) : cs[i].agent_id = a /\ cs[i].status # STATUS_CLOSED})

SelOf(rows) ==
    [called |-> TRUE,
     ret |-> assignAgentByLeastConnections(rows),
     active_cases |-> IF Len(rows) > 0 THEN rows[1].active_cases ELSE 0]

\* no processAICC run
NoRun == [node |-> "none"]

\* order ids the requests name: the orders the sequence can produce and one more
OrderIds == 1..(MaxOrders + 1)

\* no order, no order item, no DELETE /orders handler in flight
ShopEmpty ==
    /\ orders = {}
    /\ order_items = [o \in OrderIds |-> 0]
    /\ order_seq = 0
    /\ txs = EmptyBag

Init ==
    /\ is_online \in [AgentIds -> BOOLEAN]
    /\ cases = << >>
    /\ pending = EmptyBag
    /\ resp = 0
    /\ lastSel = NoCall
    /\ last = NoReq
    /\ satisfactions = << >>
    /\ messages = << >>
    /\ recordings = << >>
    /\ ShopEmpty
    /\ wf = NoRun

\* lines 133-139: a required field is missing or empty
PostCasesInvalid(body) ==
    /\ BagCardinality(pending) < NumProcs
    /\ RequiredMissing(body)
    /\ resp' = 400
    /\ last' = PostReq(AbsentOrEmpty(body), FALSE, FALSE, FALSE)
    /\ UNCHANGED <<is_online, cases, pending, lastSel>>
    /\ UNCHANGED <<subTables, farVars>>

\* rows the cases table will hold once every pending insert is applied
Reserved == Len(cases) + BagCardinality(pending)

\* the handler state between the two awaits
Handler(agent) == [agentIdToAssign |-> agent, raced |-> FALSE]

\* the selection query is a SELECT: it writes no table
SelectorFrameClearsOnline ==
    /\ is_online' = [a \in AgentIds |-> FALSE]
    /\ UNCHANGED cases
SelectorFrame == UNCHANGED <<is_online, cases>>

\* lines 141-147, 166-169: the selection query
PostCasesSelect(body) ==
    /\ BagCardinality(pending) < NumProcs
    /\ Reserved < MaxCases
    /\ ~RequiredMissing(body)
    /\ SelectorFrame
    /\ UNCHANGED <<subTables, farVars>>
    /\ \/ \* pool.query throws; assignAgentByLeastConnections rethrows
          /\ resp' = 500
          /\ last' = PostReq(AbsentOrEmpty(body), TRUE, TRUE, FALSE)
          /\ UNCHANGED <<pending, lastSel>>
       \/ \E rows \in QueryRows(is_online, cases) :
            LET ret == assignAgentByLeastConnections(rows) IN
            /\ lastSel' = SelOf(rows)
            /\ last' = PostReq(AbsentOrEmpty(body), FALSE, TRUE, FALSE)
            /\ IF Falsy(ret)
               THEN /\ resp' = 503
                    /\ UNCHANGED pending
               ELSE /\ resp' = 0
                    /\ pending' = pending (+) SetToBag({Handler(ret)})

\* some online agent other than a has strictly fewer active cases than a
LessLoadedExists(a, online, cs) ==
    \E b \in AgentIds : b # a /\ online[b] /\ OpenCases(b, cs) < OpenCases(a, cs)

\* lines 149-165: the insert succeeds
InsertRow(h) ==
    LET rest == pending (-) SetToBag({h})
        Mark(x) == IF /\ x.agentIdToAssign = h.agentIdToAssign
                      /\ LessLoadedExists(h.agentIdToAssign, is_online, cases')
                   THEN [x EXCEPT !.raced = TRUE]
                   ELSE x
    IN  /\ cases' = Append(cases, NewCase(h.agentIdToAssign))
        /\ resp' = 201
        /\ lastSel' = NoCall
        /\ last' = PostReq(FALSE, FALSE, FALSE, TRUE)
        /\ pending' = BagOfAll(Mark, rest)
        /\ UNCHANGED is_online
        /\ UNCHANGED <<subTables, farVars>>

\* lines 156, 166-169: the INSERT throws; the statement stores nothing
InsertThrowsPartial(h) ==
    /\ resp' = 500
    /\ last' = PostReq(FALSE, TRUE, FALSE, TRUE)
    /\ pending' = pending (-) SetToBag({h})
    /\ cases' = Append(cases, NewCase(NULL))
    /\ UNCHANGED <<is_online, lastSel>>
    /\ UNCHANGED <<subTables, farVars>>
InsertThrows(h) ==
    /\ resp' = 500
    /\ last' = PostReq(FALSE, TRUE, FALSE, TRUE)
    /\ pending' = pending (-) SetToBag({h})
    /\ UNCHANGED <<is_online, cases, lastSel>>
    /\ UNCHANGED <<subTables, farVars>>

\* lines 149-169: the insert
PostCasesInsert(h) ==
    /\ BagIn(h, pending)
    /\ \/ InsertThrows(h)
       \/ InsertRow(h)

\* --------------------------------------------- PATCH /cases/:case_id (cases.js)
\* closed_at = CASE WHEN $n = '종료' AND status <> '종료' THEN NOW()
\*                  WHEN $n IN ('대기','상담') THEN NULL
\*                  ELSE closed_at END
ClosedAtRuleKeep(s, row) ==
    IF s = STATUS_CLOSED THEN NOW ELSE row.closed_at
ClosedAtRule(s, row) ==
    IF s = STATUS_CLOSED /\ row.status # STATUS_CLOSED THEN NOW
    ELSE IF s \in {STATUS_WAITING, STATUS_CONSULT} THEN NULL
    ELSE row.closed_at

\* status values a request body may carry; "etc" stands for any other string
BodyStatus == allowed \cup {"etc"}

\* lines 380-476 with a status field in the body.  A status outside `allowed`
\* (400), an unknown case_id (404, rowCount = 0) and a store error (500) leave
\* the table as it is.
PatchCaseStatus(case_id, s) ==
    /\ s \in allowed
    /\ case_id \in 1..Len(cases)
    /\ cases' = [cases EXCEPT ![case_id] =
                    [cases[case_id] EXCEPT
                        !.status = s,
                        !.closed_at = ClosedAtRule(s, cases[case_id])]]
    /\ lastSel' = NoCall
    /\ resp' = 0
    /\ last' = NoReq
    /\ UNCHANGED <<is_online, pending>>
    /\ UNCHANGED <<subTables, farVars>>

\* ------------------------------------------------------- agents.js
\* PATCH /agents/:id/is_online, lines 570-598.  A non-boolean is_online (400),
\* an unknown id (404) and a store error (500) leave the table as it is.
PatchIsOnline(agentId, v) ==
    /\ v \in BOOLEAN
    /\ agentId \in AgentIds
    /\ is_online' = [is_online EXCEPT ![agentId] = v]
    /\ lastSel' = NoCall
    /\ resp' = 0
    /\ last' = NoReq
    /\ UNCHANGED <<cases, pending>>
    /\ UNCHANGED <<subTables, farVars>>

\* is_online of a PATCH /agents/:id body: <<b>> for a boolean b, or << >>
\* (undefined) when the body carries name, phone or email only
BodyIsOnline == {<< >>, <<TRUE>>, <<FALSE>>}

\* PATCH /agents/:id, lines 93-150.  fields = {name, is_online, phone, email};
\* only the fields that are not undefined are set.
PatchAgent(agentId, v) ==
    /\ v \in BodyIsOnline
    /\ agentId \in AgentIds
    /\ is_online' = IF Len(v) > 0 THEN [is_online EXCEPT ![agentId] = v[1]]
                    ELSE is_online
    /\ lastSel' = NoCall
    /\ resp' = 0
    /\ last' = NoReq
    /\ UNCHANGED <<cases, pending>>
    /\ UNCHANGED <<subTables, farVars>>

Next ==
    \/ \E body \in PostBodies : PostCasesInvalid(body)
    \/ \E body \in PostBodies : PostCasesSelect(body)
    \/ \E h \in BagToSet(pending) : PostCasesInsert(h)
    \/ \E id \in 1..MaxCases, s \in BodyStatus : PatchCaseStatus(id, s)
    \/ \E a \in AgentIds, v \in BOOLEAN : PatchIsOnline(a, v)
    \/ \E a \in AgentIds, v \in BodyIsOnline : PatchAgent(a, v)

Spec == Init /\ [][Next]_vars

\* ------------------------------- PATCH /cases/:case_id, the whole body (cases.js)
\* a memo or emotion value that is neither null nor a string with text
COL_BAD == "bad"

\* req.body of PATCH /cases/:case_id.  A field is << >> when the body has no
\* such key and <<v>> otherwise.  status is the string after trim(), "etc"
\* standing for every value outside `allowed`, a non-string included; memo
\* and emotion are COL_NULL for null, COL_TEXT for a string with text after
\* trim() and COL_BAD otherwise.  closed_at is TRUE when the body has the key.
PatchBody(st, memo, emotion, closed_at) ==
    [status |-> st, memo |-> memo, emotion |-> emotion, closed_at |-> closed_at]
PatchBodies ==
    {PatchBody(<<st>>, << >>, << >>, FALSE) : st \in {STATUS_CLOSED, STATUS_WAITING, "etc"}}
    \cup {PatchBody(<< >>, <<v>>, << >>, FALSE) : v \in {COL_NULL, COL_TEXT, COL_BAD}}
    \cup {PatchBody(<< >>, << >>, << >>, FALSE),
          PatchBody(<< >>, << >>, <<COL_TEXT>>, FALSE),
          PatchBody(<<STATUS_CLOSED>>, <<COL_TEXT>>, <<COL_TEXT>>, FALSE),
          PatchBody(<<STATUS_CLOSED>>, << >>, << >>, TRUE),
          PatchBody(<< >>, <<COL_TEXT>>, << >>, TRUE)}

\* hasStatus || hasMemo || hasEmotion
HasAny(body) == Len(body.status) > 0 \/ Len(body.memo) > 0 \/ Len(body.emotion) > 0

\* extras = Object.keys(body).filter(k => !allowedKeys.has(k)); extras.length
Extras(body) == body.closed_at

\* allowed.includes(s), when the body has a status
StatusOk(body) == IF Len(body.status) = 0 THEN TRUE ELSE body.status[1] \in allowed

\* body.memo === null || (typeof body.memo === 'string' && body.memo.trim().length > 0),
\* when the body has the field; the same test for emotion
ColOk(f) == IF Len(f) = 0 THEN TRUE ELSE f[1] \in {COL_NULL, COL_TEXT}

\* the checks of lines 391-447 other than the one on unsupported keys
FieldsValid(body) ==
    HasAny(body) /\ StatusOk(body) /\ ColOk(body.memo) /\ ColOk(body.emotion)

\* UPDATE cases SET ${sets.join(', ')} WHERE case_id = $n
UpdateRowUnassign(row, body) ==
    [row EXCEPT !.agent_id = NULL]
UpdateRow(row, body) ==
    [row EXCEPT
        !.status = IF Len(body.status) > 0 THEN body.status[1] ELSE row.status,
        !.closed_at = IF Len(body.status) > 0 THEN ClosedAtRule(body.status[1], row)
                      ELSE row.closed_at,
        !.memo = IF Len(body.memo) > 0 THEN body.memo[1] ELSE row.memo,
        !.emotion = IF Len(body.emotion) > 0 THEN body.emotion[1] ELSE row.emotion]

\* what a PATCH /cases/:case_id step handled: the body had a closed_at key,
\* its other fields pass the checks, the query threw
PatchReq(body, err) ==
    [op |-> "patchCase", closed_at |-> body.closed_at, valid |-> FieldsValid(body),
     err |-> err]

\* PATCH /cases/:case_id, lines 380-476, for a numeric case_id
PatchCase(case_id, body) ==
    LET found == case_id \in 1..Len(cases) IN
    /\ lastSel' = NoCall
    /\ UNCHANGED <<is_online, pending>>
    /\ UNCHANGED <<subTables, farVars>>
    /\ IF ~FieldsValid(body) \/ Extras(body)
       THEN /\ resp' = 400
            /\ last' = PatchReq(body, FALSE)
            /\ UNCHANGED cases
       ELSE \/ \* pool.query throws
               /\ resp' = 500
               /\ last' = PatchReq(body, TRUE)
               /\ UNCHANGED cases
            \/ /\ last' = PatchReq(body, FALSE)
               /\ IF found
                  THEN /\ cases' = [cases EXCEPT
                                      ![case_id] = UpdateRow(cases[case_id], body)]
                       /\ resp' = 200
                  ELSE /\ resp' = 404
                       /\ UNCHANGED cases

\* --------------------------------------------------- POST /chat/:case_id (chat.js)
\* analysis.json?.emotion ?? null and analysis.json?.summary ?? null: the
\* analysis gave both fields, or no JSON at all
Analyses == {[emotion |-> COL_TEXT, summary |-> COL_TEXT],
             [emotion |-> COL_NULL, summary |-> COL_NULL]}

\* SELECT ... FROM messages WHERE case_id = $1 returns a row
HasMessages(case_id) == \E i \in 1..Len(messages) : messages[i].case_id = case_id

\* UPDATE cases SET emotion = $1, memo = $2 WHERE case_id = $3
ChatUpdate(row, a) == [row EXCEPT !.emotion = a.emotion, !.memo = a.summary]

ChatReq == [op |-> "chat"]

\* POST /chat/:case_id, lines 211-296, for a positive integer case_id.  No
\* handler deletes a message or a case, so what the SELECT returned still
\* holds when the UPDATE runs: the handler is taken at its UPDATE.
ChatAnalyze(case_id, a) ==
    /\ lastSel' = NoCall
    /\ last' = ChatReq
    /\ UNCHANGED <<is_online, pending>>
    /\ UNCHANGED <<subTables, farVars>>
    /\ IF ~HasMessages(case_id)
       THEN /\ resp' = 404
            /\ UNCHANGED cases
       ELSE \/ \* the SELECT or the analysis throws
               /\ resp' = 500
               /\ UNCHANGED cases
            \/ \* the UPDATE throws: logged, the analysis is still returned
               /\ resp' = 200
               /\ UNCHANGED cases
            \/ /\ resp' = 200
               /\ cases' = IF case_id \in 1..Len(cases)
                           THEN [cases EXCEPT ![case_id] = ChatUpdate(cases[case_id], a)]
                           ELSE cases

\* ------------------------- satisfactions, messages, recordings of a case (cases.js)
\* rows stored in the three tables
Rows == Len(satisfactions) + Len(messages) + Len(recordings)

\* score of the request body.  lead is the integer Number.parseInt reads at the
\* front of String(score), NULL when there is none (NaN); exact tells that the
\* whole value is that integer: 5 and '5' are [5, TRUE], 5.5 and '5abc' are
\* [5, FALSE], undefined and 'abc' are [NULL, FALSE].
Score(lead, exact) == [lead |-> lead, exact |-> exact]
Scores == {Score(5, TRUE), Score(5, FALSE), Score(0, TRUE), Score(6, TRUE),
           Score(NULL, FALSE)}

\* Number.parseInt(score, 10)
parseInt(score) == score.lead

\* !Number.isInteger(nScore) || nScore < 1 || nScore > 5
ScoreRejected(nScore) == nScore = NULL \/ nScore < 1 \/ nScore > 5

\* the score of the body is an integer from 1 to 5
IntegerScore(score) == score.exact /\ score.lead \in 1..5

SatReq(score, found, err) ==
    [op |-> "postSat", integer |-> IntegerScore(score), found |-> found, err |-> err]

\* POST /cases/:case_id/satisfactions, lines 541-582, for a numeric case_id
PostSatisfaction(case_id, score) ==
    LET nScore == parseInt(score)
        found == case_id \in 1..Len(cases)
    IN
    /\ lastSel' = NoCall
    /\ UNCHANGED <<is_online, cases, pending, messages, recordings>>
    /\ UNCHANGED farVars
    /\ IF ScoreRejected(nScore)
       THEN /\ resp' = 400
            /\ last' = SatReq(score, found, FALSE)
            /\ UNCHANGED satisfactions
       ELSE \/ \* pool.query throws
               /\ resp' = 500
               /\ last' = SatReq(score, found, TRUE)
               /\ UNCHANGED satisfactions
            \/ \* INSERT ... SELECT ... WHERE EXISTS (SELECT 1 FROM cases WHERE case_id = $1)
               /\ last' = SatReq(score, found, FALSE)
               /\ IF found
                  THEN /\ Rows < MaxRows
                       /\ satisfactions' =
                             Append(satisfactions, [case_id |-> case_id, score |-> nScore])
                       /\ resp' = 201
                  ELSE /\ resp' = 404
                       /\ UNCHANGED satisfactions

MsgReq(valid, found, err) ==
    [op |-> "postMsg", valid |-> valid, found |-> found, err |-> err]

\* POST /cases/:case_id/messages, lines 723-759, for a numeric case_id; valid
\* tells that content and speaker are strings with text.  The INSERT names no
\* cases row; whether the store rejects a case_id without a case depends on
\* the schema, which is not part of the repository: it may store the row or
\* throw.
PostMessage(case_id, valid) ==
    LET found == case_id \in 1..Len(cases) IN
    /\ lastSel' = NoCall
    /\ UNCHANGED <<is_online, cases, pending, satisfactions, recordings>>
    /\ UNCHANGED farVars
    /\ IF ~valid
       THEN /\ resp' = 400
            /\ last' = MsgReq(valid, found, FALSE)
            /\ UNCHANGED messages
       ELSE \/ \* pool.query throws
               /\ resp' = 500
               /\ last' = MsgReq(valid, found, TRUE)
               /\ UNCHANGED messages
            \/ /\ Rows < MaxRows
               /\ messages' = Append(messages, [case_id |-> case_id])
               /\ resp' = 201
               /\ last' = MsgReq(valid, found, FALSE)

RecReq == [op |-> "postRec"]

\* POST /cases/:case_id/recordings, lines 890-923, for a numeric case_id; valid
\* tells that file_url is a string with text
PostRecording(case_id, valid) ==
    /\ lastSel' = NoCall
    /\ last' = RecReq
    /\ UNCHANGED <<is_online, cases, pending, satisfactions, messages>>
    /\ UNCHANGED farVars
    /\ IF ~valid
       THEN /\ resp' = 400
            /\ UNCHANGED recordings
       ELSE \/ \* pool.query throws
               /\ resp' = 500
               /\ UNCHANGED recordings
            \/ /\ Rows < MaxRows
               /\ recordings' = Append(recordings, [case_id |-> case_id])
               /\ resp' = 201

\* ------------------------------------------ operations on an existing case
\* POST /cases with a valid body, lines 132-165, run with no other handler
\* between its two queries and ending in 201
CreateCase ==
    /\ Len(cases) < MaxSubCases
    /\ pending = EmptyBag
    /\ ~RequiredMissing(ValidBody)
    /\ \E rows \in QueryRows(is_online, cases) :
          LET ret == assignAgentByLeastConnections(rows) IN
          /\ ~Falsy(ret)
          /\ cases' = Append(cases, NewCase(ret))
    /\ resp' = 201
    /\ lastSel' = NoCall
    /\ last' = PostReq(FALSE, FALSE, TRUE, TRUE)
    /\ UNCHANGED <<is_online, pending>>
    /\ UNCHANGED <<subTables, farVars>>

\* the agent on duty in this specification: the only one online at the start
\* and the only one whose record the agent requests address
DeskAgent == 1

InitCase ==
    /\ is_online = [a \in AgentIds |-> a = DeskAgent]
    /\ cases = << >>
    /\ pending = EmptyBag
    /\ resp = 0
    /\ lastSel = NoCall
    /\ last = NoReq
    /\ satisfactions = << >>
    /\ messages = << >>
    /\ recordings = << >>
    /\ ShopEmpty
    /\ wf = NoRun

\* case_id values of the requests: the stored cases and one id past them
CaseIds == 1..(MaxSubCases + 1)

NextCase ==
    \/ CreateCase
    \/ \E id \in CaseIds, body \in PatchBodies : PatchCase(id, body)
    \/ \E id \in CaseIds, a \in Analyses : ChatAnalyze(id, a)
    \/ \E id \in CaseIds, score \in Scores : PostSatisfaction(id, score)
    \/ \E id \in CaseIds, valid \in BOOLEAN : PostMessage(id, valid)
    \/ \E id \in CaseIds, valid \in BOOLEAN : PostRecording(id, valid)
    \/ \E v \in BOOLEAN : PatchIsOnline(DeskAgent, v)
    \/ \E v \in BodyIsOnline : PatchAgent(DeskAgent, v)

SpecCase == InitCase /\ [][NextCase]_vars

\* ----------------------------------- order routes (orders.js, customers.js)
\* The store runs each statement at READ COMMITTED: what a transaction deleted
\* stays in the committed table, locked, until COMMIT removes it or ROLLBACK
\* frees it, and a statement that needs a locked row waits.  order_items.order_id
\* references orders: the handler deletes the items before the order because
\* the store refuses to delete an order that an item still names, and refuses
\* an item that names no order.

\* one DELETE /orders/:order_id handler between two of its queries.  pc is
\* "begun" after BEGIN, "items" after DELETE FROM order_items, "order" after
\* DELETE FROM orders with rowCount > 0, "notfound" after rowCount = 0 and
\* "failed" once a query threw; n is the number of rows its DELETE FROM
\* order_items removed.
Tx(orderId, pc, n) == [orderId |-> orderId, pc |-> pc, n |-> n]

\* the transactions other than t
Others(t) == BagToSet(txs (-) SetToBag({t}))

\* some item of order o is deleted by a transaction other than t and not committed
ItemsLocked(o, t) == \E u \in Others(t) : u.orderId = o /\ u.n > 0

\* the row of order o is deleted by some transaction and not committed
OrderLocked(o) == \E u \in BagToSet(txs) : u.orderId = o /\ u.pc = "order"

\* t becomes u
Become(t, u) == txs' = (txs (-) SetToBag({t})) (+) SetToBag({u})

DelReq(t) == [op |-> "deleteOrder", order_id |-> t.orderId, n |-> t.n]
ItemReq(o) == [op |-> "postItem", order_id |-> o]
OrderReq == [op |-> "postOrder"]

\* the steps of the order routes leave the case and agent tables alone
ShopFrame ==
    /\ UNCHANGED <<is_online, cases, pending, lastSel, wf>>
    /\ UNCHANGED subTables

\* POST /customers/:customer_id/orders, customers.js lines 509-529, for a valid
\* customer_id: INSERT INTO orders takes the next order_id of the sequence
PostOrder ==
    /\ ShopFrame
    /\ last' = OrderReq
    /\ UNCHANGED <<order_items, txs>>
    /\ \/ \* pool.query throws
          /\ resp' = 500
          /\ UNCHANGED <<orders, order_seq>>
       \/ /\ order_seq < MaxOrders
          /\ order_seq' = order_seq + 1
          /\ orders' = orders \cup {order_seq + 1}
          /\ resp' = 201

\* POST /orders/:order_id/order-items, orders.js lines 447-483, for integer
\* product_id and quantity.  The INSERT waits while the order row is locked.
PostOrderItem(o) ==
    /\ ShopFrame
    /\ ~OrderLocked(o)
    /\ last' = ItemReq(o)
    /\ UNCHANGED <<orders, order_seq, txs>>
    /\ IF o \notin orders
       THEN \* the store refuses the row
            /\ resp' = 500
            /\ UNCHANGED order_items
       ELSE \/ \* pool.query throws
               /\ resp' = 500
               /\ UNCHANGED order_items
            \/ /\ order_items[o] < MaxItems
               /\ order_items' = [order_items EXCEPT ![o] = @ + 1]
               /\ resp' = 201

\* a step of the handler that sends no response and commits nothing
TxStep(t, u) ==
    /\ ShopFrame
    /\ Become(t, u)
    /\ resp' = 0
    /\ last' = NoReq
    /\ UNCHANGED <<orders, order_items, order_seq>>

\* lines 264-271: pool.connect() and BEGIN
DeleteBegin(o) ==
    /\ ShopFrame
    /\ BagCardinality(txs) < MaxTx
    /\ txs' = txs (+) SetToBag({Tx(o, "begun", 0)})
    /\ resp' = 0
    /\ last' = NoReq
    /\ UNCHANGED <<orders, order_items, order_seq>>

\* line 274: DELETE FROM order_items WHERE order_id = $1
DeleteItems(t) ==
    /\ t.pc = "begun"
    /\ ~ItemsLocked(t.orderId, t)
    /\ \/ TxStep(t, Tx(t.orderId, "items", order_items[t.orderId]))
       \/ TxStep(t, Tx(t.orderId, "failed", 0))

\* lines 277-281: DELETE FROM orders WHERE order_id = $1
DeleteOrderRow(t) ==
    /\ t.pc = "items"
    /\ ~ItemsLocked(t.orderId, t)
    /\ ~OrderLocked(t.orderId)
    /\ \/ TxStep(t, Tx(t.orderId, "failed", t.n))
       \/ IF t.orderId \notin orders
          THEN TxStep(t, Tx(t.orderId, "notfound", t.n))
          ELSE IF order_items[t.orderId] > t.n
          THEN \* an item added since line 274 still names the order
               TxStep(t, Tx(t.orderId, "failed", t.n))
          ELSE TxStep(t, Tx(t.orderId, "order", t.n))

\* the committed tables once t has ended with COMMIT, with ROLLBACK
AfterCommit(t) ==
    [orders |-> orders \ {t.orderId},
     order_items |-> [order_items EXCEPT ![t.orderId] = @ - t.n]]
AfterRollbackKeepsDeletes(t) ==
    [orders |-> orders,
     order_items |-> [order_items EXCEPT ![t.orderId] = @ - t.n]]
AfterRollback(t) ==
    [orders |-> orders, order_items |-> order_items]

\* t ends: it sends code and leaves the tables as in store
TxEnd(t, code, store) ==
    /\ ShopFrame
    /\ txs' = txs (-) SetToBag({t})
    /\ resp' = code
    /\ last' = DelReq(t)
    /\ orders' = store.orders
    /\ order_items' = store.order_items
    /\ UNCHANGED order_seq

\* lines 283-289: COMMIT and the success response; a COMMIT that throws goes
\* to the catch block
DeleteCommit(t) ==
    /\ t.pc = "order"
    /\ \/ TxEnd(t, 200, AfterCommit(t))
       \/ TxStep(t, Tx(t.orderId, "failed", t.n))

\* lines 278-281: ROLLBACK and 404; a ROLLBACK that throws goes to the catch
\* block
DeleteNotFound(t) ==
    /\ t.pc = "notfound"
    /\ \/ TxEnd(t, 404, AfterRollback(t))
       \/ TxStep(t, Tx(t.orderId, "failed", t.n))

\* lines 290-293: the catch block, ROLLBACK and 500
DeleteFailed(t) ==
    /\ t.pc = "failed"
    /\ TxEnd(t, 500, AfterRollback(t))

\* the store of this specification: no case, every agent offline
InitShop ==
    /\ is_online = [a \in AgentIds |-> FALSE]
    /\ cases = << >>
    /\ pending = EmptyBag
    /\ resp = 0
    /\ lastSel = NoCall
    /\ last = NoReq
    /\ satisfactions = << >>
    /\ messages = << >>
    /\ recordings = << >>
    /\ ShopEmpty
    /\ wf = NoRun

NextShop ==
    \/ PostOrder
    \/ \E o \in OrderIds : PostOrderItem(o)
    \/ \E o \in OrderIds : DeleteBegin(o)
    \/ \E t \in BagToSet(txs) : DeleteItems(t)
    \/ \E t \in BagToSet(txs) : DeleteOrderRow(t)
    \/ \E t \in BagToSet(txs) : DeleteCommit(t)
    \/ \E t \in BagToSet(txs) : DeleteNotFound(t)
    \/ \E t \in BagToSet(txs) : DeleteFailed(t)

SpecShop == InitShop /\ [][NextShop]_vars

\* ------------------------------------------- processAICC workflow (bedrock.js)
\* One thread of the checkpointer (thread_id = caseId).  wf.node is the node
\* that runs next, "idle" before the first invocation and "done" once
\* processAICC has returned or thrown.  A node and the edge that leaves it are
\* one step.  The channels keep their value from one invocation to the next;
\* the input of app.invoke overwrites userQuery, caseId and retryCount only.
\* History fields, per invocation: action is the answer of the guardrail
\* service, ran the nodes that have run, execRuns the number of runs of
\* api_executor, result what processAICC did.

\* if (raw.includes('"action":"finish"') || iterations >= 4)
MAX_API_ITERATIONS == 4
\* if (count < 2)
MAX_RETRY == 2

GUARDRAIL_INTERVENED == "GUARDRAIL_INTERVENED"
GUARDRAIL_BLOCKED == "GUARDRAIL_BLOCKED"

\* supervisor edge map: api, rag, ft
Intents == {"api", "rag", "ft"}

\* statuses of the verifier model; a reply without a status field reads "P"
Statuses == {"P", "RETRY_API", "RETRY_RAG", "RETRY_FT"}

\* data.action of the guardrail service
GuardrailActions == {GUARDRAIL_INTERVENED, "NONE"}

\* the nodes that await a remote call outside a try block
ThrowingNodes ==
    {"guardrail", "memory", "supervisor", "api_planner", "rag", "ft",
     "verifier", "composer"}

\* channels all null, nothing invoked
Idle ==
    [node |-> "idle", intent |-> "none", retryCount |-> 0, apiIterations |-> 0,
     finish |-> FALSE, verificationStatus |-> "none",
     action |-> "none", ran |-> {}, execRuns |-> 0, result |-> "none"]

\* the workflow steps leave the tables alone
FlowFrame ==
    /\ UNCHANGED <<is_online, cases, pending, resp, lastSel, last>>
    /\ UNCHANGED subTables
    /\ UNCHANGED shopVars

\* the node wf.node has run
Ran(w) == [w EXCEPT !.ran = @ \cup {w.node}]

\* the catch block of processAICC, lines 399-403, by err.message
CatchRethrows(message) == "rethrow"
Catch(message) ==
    IF message = GUARDRAIL_BLOCKED THEN "block" ELSE "rethrow"

\* app.invoke rejects with an error of this message
Rejects(w, message) ==
    [Ran(w) EXCEPT !.node = "done", !.result = Catch(message)]

\* lines 381-384: app.invoke({ userQuery, caseId, retryCount: 0 }, config)
Invoke ==
    /\ wf.node \in {"idle", "done"}
    /\ wf' = [wf EXCEPT !.node = "guardrail", !.retryCount = 0,
                        !.action = "none", !.ran = {}, !.execRuns = 0,
                        !.result = "none"]
    /\ FlowFrame

\* lines 96-117 and the edge guardrail -> memory
guardrailNode(action) ==
    /\ wf.node = "guardrail"
    /\ wf' = IF action = GUARDRAIL_INTERVENED
             THEN [Rejects(wf, GUARDRAIL_BLOCKED) EXCEPT !.action = action]
             ELSE [Ran(wf) EXCEPT !.node = "memory", !.action = action]
    /\ FlowFrame

\* a fetch, pool.query or send of the node rejects
NodeThrows ==
    /\ wf.node \in ThrowingNodes
    /\ wf' = Rejects(wf, "other")
    /\ FlowFrame

\* lines 120-133 and the edge memory -> supervisor
memoryLoaderNode ==
    /\ wf.node = "memory"
    /\ wf' = [Ran(wf) EXCEPT !.node = "supervisor"]
    /\ FlowFrame

\* lines 330-334: (state) => state.intent
SupervisorEdge(w) ==
    CASE w.intent = "api" -> "api_planner"
      [] w.intent = "rag" -> "rag"
      [] w.intent = "ft" -> "ft"

\* lines 136-149
supervisorNode(intent) ==
    /\ wf.node = "supervisor"
    /\ LET w == [Ran(wf) EXCEPT !.intent = intent] IN
       wf' = [w EXCEPT !.node = SupervisorEdge(w)]
    /\ FlowFrame

\* lines 336-348
PlannerEdgeFinishOnly(w) ==
    IF w.finish THEN "verifier" ELSE "api_executor"
PlannerEdge(w) ==
    IF w.finish \/ w.apiIterations >= MAX_API_ITERATIONS
    THEN "verifier"
    ELSE "api_executor"

\* lines 153-181: reason is the reply of the planner model (finish: it holds
\* "action":"finish"), apiIterations: state.apiIterations || 0
apiPlannerNode(finish) ==
    /\ wf.node = "api_planner"
    /\ LET w == [Ran(wf) EXCEPT !.finish = finish] IN
       wf' = [w EXCEPT !.node = PlannerEdge(w)]
    /\ FlowFrame

\* lines 184-236 and the edge api_executor -> api_planner.  The try block
\* (ok) and the catch block both return apiIterations + 1.
apiExecutorNode(ok) ==
    /\ wf.node = "api_executor"
    /\ wf' = [Ran(wf) EXCEPT !.node = "api_planner",
                             !.apiIterations = @ + 1,
                             !.execRuns = @ + 1]
    /\ FlowFrame

\* lines 239-251 and the edge rag -> verifier
ragNode ==
    /\ wf.node = "rag"
    /\ wf' = [Ran(wf) EXCEPT !.node = "verifier", !.retryCount = @ + 1]
    /\ FlowFrame

\* lines 254-266 and the edge ft -> verifier
ftNode ==
    /\ wf.node = "ft"
    /\ wf' = [Ran(wf) EXCEPT !.node = "verifier", !.retryCount = @ + 1]
    /\ FlowFrame

\* lines 355-374
VerifierEdge(w) ==
    IF w.retryCount < MAX_RETRY /\ w.verificationStatus = "RETRY_API" /\ w.intent # "api"
    THEN "api_planner"
    ELSE IF w.retryCount < MAX_RETRY /\ w.verificationStatus = "RETRY_RAG" /\ w.intent # "rag"
    THEN "rag"
    ELSE IF w.retryCount < MAX_RETRY /\ w.verificationStatus = "RETRY_FT" /\ w.intent # "ft"
    THEN "ft"
    ELSE "composer"

\* lines 269-281
verifierNode(status) ==
    /\ wf.node = "verifier"
    /\ LET w == [Ran(wf) EXCEPT !.verificationStatus = status] IN
       wf' = [w EXCEPT !.node = VerifierEdge(w)]
    /\ FlowFrame

\* lines 284-312, the edge composer -> END and lines 385-398
composerNode ==
    /\ wf.node = "composer"
    /\ wf' = [Ran(wf) EXCEPT !.node = "done", !.result = "answer"]
    /\ FlowFrame

InitFlow ==
    /\ is_online = [a \in AgentIds |-> FALSE]
    /\ cases = << >>
    /\ pending = EmptyBag
    /\ resp = 0
    /\ lastSel = NoCall
    /\ last = NoReq
    /\ satisfactions = << >>
    /\ messages = << >>
    /\ recordings = << >>
    /\ ShopEmpty
    /\ wf = Idle

NextFlow ==
    \/ Invoke
    \/ \E action \in GuardrailActions : guardrailNode(action)
    \/ NodeThrows
    \/ memoryLoaderNode
    \/ \E intent \in Intents : supervisorNode(intent)
    \/ \E finish \in BOOLEAN : apiPlannerNode(finish)
    \/ \E ok \in BOOLEAN : apiExecutorNode(ok)
    \/ ragNode
    \/ ftNode
    \/ \E status \in Statuses : verifierNode(status)
    \/ composerNode

\* the runtime runs the next node of a started invocation
SpecFlow == InitFlow /\ [][NextFlow]_vars /\ WF_vars(NextFlow)

\* ------------------------------ creations one at a time (cases.js, POST /cases)
\* The online flags stay as they are at the start, no request changes the
\* status of a case, and a POST /cases handler starts only when no other is
\* between its selection and its insert.

\* a stored case of agent a: waiting, or closed by PATCH /cases/:case_id
\* (lines 407-429: status '종료', closed_at = NOW())
StoredCase(a, closed) ==
    IF closed
    THEN [NewCase(a) EXCEPT !.status = STATUS_CLOSED, !.closed_at = NOW]
    ELSE NewCase(a)

\* the case tables the earlier requests may have left: every case is bound to
\* an agent the creation accepts (agentIdToAssign is not falsy)
StartCases ==
    UNION {[1..n -> {StoredCase(a, closed) :
                        a \in {x \in AgentIds : ~Falsy(x)}, closed \in BOOLEAN}] :
              n \in 0..MaxStartCases}

\* all online agents have the same number of cases that are not closed
EqualLoad(online, cs) ==
    \A a, b \in AgentIds :
        (online[a] /\ online[b]) => OpenCases(a, cs) = OpenCases(b, cs)

InitBalance ==
    /\ is_online \in [AgentIds -> BOOLEAN]
    /\ cases \in StartCases
    /\ EqualLoad(is_online, cases)
    /\ pending = EmptyBag
    /\ resp = 0
    /\ lastSel = NoCall
    /\ last = NoReq
    /\ satisfactions = << >>
    /\ messages = << >>
    /\ recordings = << >>
    /\ ShopEmpty
    /\ wf = NoRun

NextBalance ==
    \/ pending = EmptyBag /\ PostCasesSelect(ValidBody)
    \/ \E h \in BagToSet(pending) : PostCasesInsert(h)

SpecBalance == InitBalance /\ [][NextBalance]_vars

\* ------------------------------------------------------------------ claims
AnyOnline == \E a \in AgentIds : is_online[a]

\* C1: the selector returns null or an agent that is online in the state it
\* read; an offline agent is never returned, whatever its load.
Inv_C1 ==
    lastSel.called =>
        \/ lastSel.ret = NULL
        \/ lastSel.ret \in AgentIds /\ is_online[lastSel.ret]

\* the selector returned an online agent although an offline agent had
\* strictly fewer active cases
Wit_C1 ==
    /\ lastSel.called
    /\ lastSel.ret \in AgentIds
    /\ \E b \in AgentIds :
          ~is_online[b] /\ ActiveCases(b, cases) < ActiveCases(lastSel.ret, cases)

\* C2: when some agent is online, the returned agent's count of cases that
\* are not closed is at most that of every other online agent.
CE_C2 ==
    (lastSel.called /\ AnyOnline) =>
        /\ lastSel.ret \in AgentIds
        /\ \A b \in AgentIds :
              is_online[b] => OpenCases(lastSel.ret, cases) <= OpenCases(b, cases)

\* C3: the load the selector computes for the agent it returns is the number
\* of that agent's cases whose status is not the closed state.
CE_C3 ==
    (lastSel.called /\ lastSel.ret \in AgentIds) =>
        lastSel.active_cases = OpenCases(lastSel.ret, cases)

\* C4: when no agent is online the selector returns null, never an agent
\* identifier.
Inv_C4 ==
    (lastSel.called /\ ~AnyOnline) => lastSel.ret = NULL

\* the selector ran with every agent offline while cases exist
Wit_C4 ==
    /\ lastSel.called
    /\ ~AnyOnline
    /\ lastSel.ret = NULL
    /\ Len(cases) > 0

\* C5: two selector calls with no store write between them return the same
\* agent, ties on the minimum included.
CE_C5 ==
    [][(lastSel.called /\ lastSel'.called) => lastSel'.ret = lastSel.ret]_vars

\* C6: a successful creation adds exactly one row, with the waiting status,
\* closed_at null and the agent the selector returns on the state right
\* before the insert, also under concurrent requests.
CE_C6 ==
    [][Len(cases') > Len(cases) =>
         /\ Len(cases') = Len(cases) + 1
         /\ SubSeq(cases', 1, Len(cases)) = cases
         /\ cases'[Len(cases')].status = STATUS_WAITING
         /\ cases'[Len(cases')].closed_at = NULL
         /\ \E rows \in QueryRows(is_online, cases) :
               cases'[Len(cases')].agent_id = assignAgentByLeastConnections(rows)]_vars

\* C7: at the moment a case row is inserted the agent it names is online.
CE_C7 ==
    [][Len(cases') > Len(cases) => is_online[cases'[Len(cases')].agent_id]]_vars

\* C8: two overlapping creations do not both bind the same agent when, once
\* the first insert is applied, another online agent has strictly fewer
\* active cases than that agent.
CE_C8 ==
    [][\A h \in BagToSet(pending) : InsertRow(h) => ~h.raced]_vars

\* C9: a valid request ends in 503 only if no agent is online when the
\* selection runs, for every agent identifier the store can hold.  (The
\* selection and the 503 response are one step, so in a state with
\* resp = 503 the agents table is the one the selection read.)
CE_C9 ==
    resp = 503 => ~AnyOnline

\* C10: every case row has a non-null agent_id that names an agent of the
\* agent store.
Inv_C10 ==
    \A i \in 1..Len(cases) :
        cases[i].agent_id # NULL /\ cases[i].agent_id \in AgentIds

\* a case was created and another request ended in the no-capacity outcome
Wit_C10 ==
    /\ Len(cases) > 0
    /\ resp = 503

\* C11: a creation request with an absent or empty required field gets 400
\* and runs neither the selection query nor the insert; the case store is
\* unchanged.
Prop_C11 ==
    [][(last'.op = "postCases" /\ last'.missing) =>
          /\ resp' = 400
          /\ ~last'.sel /\ ~last'.ins
          /\ UNCHANGED <<cases, pending, lastSel>>]_vars

\* a request without title (or another required field) was rejected while the
\* store holds a case and an agent is online
Wit_C11 ==
    /\ last.op = "postCases" /\ last.missing
    /\ resp = 400
    /\ Len(cases) > 0
    /\ AnyOnline

\* C12: a valid creation request made while every agent is offline gets 503
\* and writes nothing.
Prop_C12 ==
    [][(last'.op = "postCases" /\ last'.sel /\ ~last'.err /\ ~AnyOnline) =>
          /\ resp' = 503
          /\ UNCHANGED <<cases, pending, is_online>>]_vars

\* the no-capacity answer was given with all agents offline and cases stored
Wit_C12 ==
    /\ last.op = "postCases" /\ last.sel /\ ~last.err
    /\ ~AnyOnline
    /\ resp = 503
    /\ Len(cases) > 0

\* C13: when the selection query or the insert throws, the request gets 500
\* and the case store is as before: no row added, none without an agent.
Prop_C13 ==
    [][(last'.op = "postCases" /\ last'.err) =>
          /\ resp' = 500
          /\ cases' = cases
          /\ \A i \in 1..Len(cases') : cases'[i].agent_id \in AgentIds]_vars

\* an insert threw while the store already held a case
Wit_C13 ==
    /\ last.op = "postCases" /\ last.err /\ last.ins
    /\ resp = 500
    /\ Len(cases) > 0

\* C14: a creation call ends in 201, 400, 503 or 500; 503 comes only from an
\* empty eligible set, never from a missing field or a store error; a store
\* error ends in 500.
CE_C14 ==
    last.op = "postCases" =>
        /\ resp \in {0, 201, 400, 503, 500}
        /\ last.err => resp = 500
        /\ resp = 503 => (~last.missing /\ ~last.err /\ Candidates(is_online) = {})

\* C15: running the selector leaves every agent record and every case record
\* as it was, whether it returns an agent, returns null or throws.
Prop_C15 ==
    [][(last'.op = "postCases" /\ last'.sel) =>
          (is_online' = is_online /\ cases' = cases)]_vars

\* the selector returned an agent from a store that holds cases
Wit_C15 ==
    /\ last.op = "postCases" /\ last.sel /\ ~last.err
    /\ lastSel.called /\ lastSel.ret \in AgentIds
    /\ Len(cases) > 0

\* C16: the agent_id of a stored case never changes: not by PATCH
\* /cases/:case_id, the chat analysis write-back, a new satisfaction, message
\* or recording, an is_online toggle or an agent PATCH.
Prop_C16 ==
    [][\A i \in 1..Len(cases) : cases'[i].agent_id = cases[i].agent_id]_vars

\* a case that was closed by PATCH and has a message got its analysis written
\* back while its agent is offline
Wit_C16 ==
    /\ last.op = "chat"
    /\ resp = 200
    /\ \E i \in 1..Len(cases) :
          /\ cases[i].status = STATUS_CLOSED
          /\ cases[i].emotion = COL_TEXT
          /\ HasMessages(i)
          /\ cases[i].agent_id \in AgentIds
          /\ ~is_online[cases[i].agent_id]

\* C17: for every case, closed_at is non-null exactly when the status is the
\* closed status, after creation and any sequence of status changes.
Inv_C17 ==
    \A i \in 1..Len(cases) :
        (cases[i].closed_at # NULL) <=> (cases[i].status = STATUS_CLOSED)

\* one case is closed with closed_at set, another is in progress with
\* closed_at null
Wit_C17 ==
    \E i, j \in 1..Len(cases) :
        /\ cases[i].status = STATUS_CLOSED /\ cases[i].closed_at = NOW
        /\ cases[j].status = STATUS_CONSULT /\ cases[j].closed_at = NULL

\* C18: a PATCH /cases/:case_id body that carries closed_at is handled as if
\* the key were absent: when its other fields pass the checks the request
\* reaches the UPDATE (200, or 404 for an unknown case, or 500 on a store
\* error).
CE_C18 ==
    (last.op = "patchCase" /\ last.closed_at /\ last.valid) => resp \in {200, 404, 500}

\* C19: POST /cases/:case_id/satisfactions stores a row only if the case
\* exists and the score is an integer from 1 to 5; otherwise the table is
\* unchanged and the answer is 400 or 404 (500 on a store error).
CE_C19 ==
    [][(last'.op = "postSat" /\ ~(last'.found /\ last'.integer)) =>
          /\ satisfactions' = satisfactions
          /\ last'.err \/ resp' \in {400, 404}]_vars

\* C20: POST /cases/:case_id/messages with a valid body for a case_id that
\* names no case answers 404 and stores no message row.
CE_C20 ==
    [][(last'.op = "postMsg" /\ last'.valid /\ ~last'.found) =>
          /\ resp' = 404
          /\ messages' = messages]_vars

CE_C22 ==
    [][(/\ Len(cases') > Len(cases)
        /\ BagCardinality(pending) = 1
        /\ lastSel.called
        /\ lastSel.ret = cases'[Len(cases')].agent_id) =>
          LET a == cases'[Len(cases')].agent_id IN
          /\ is_online[a]
          /\ \A b \in AgentIds :
                is_online[b] => OpenCases(a, cases) <= OpenCases(b, cases)]_vars

Inv_C24 ==
    wf.execRuns <= 4

\* the executor ran 4 times, the planner never said finish and the verifier
\* has run
Wit_C24 ==
    /\ wf.execRuns = 4
    /\ ~wf.finish
    /\ "verifier" \in wf.ran

\* C25: when the guardrail service answers GUARDRAIL_INTERVENED no node
\* other than guardrail runs in that invocation and processAICC returns the
\* security-block answer instead of throwing.
Inv_C25 ==
    wf.action = GUARDRAIL_INTERVENED =>
        /\ wf.ran = {"guardrail"}
        /\ wf.node = "done"
        /\ wf.result = "block"

\* a blocked invocation on a thread whose earlier invocation ran the workers
Wit_C25 ==
    /\ wf.action = GUARDRAIL_INTERVENED
    /\ wf.result = "block"
    /\ wf.apiIterations > 0

\* C26: with the online flags fixed, no case closed and the creations run
\* one at a time from a state where the online agents have equal counts of
\* cases that are not closed, two online agents never differ by more than 1
\* in that count.
CE_C26 ==
    \A a, b \in AgentIds :
        (is_online[a] /\ is_online[b]) =>
            OpenCases(a, cases) - OpenCases(b, cases) <= 1

=============================================================================
